---- MODULE Spec2Model ----
(***************************************************************************)
(* A model of the Heidelberg .e2e reader (oct_converter/readers/e2e.py):   *)
(* one E2E reader object and the calls read_oct_volume and                 *)
(* read_fundus_image made on it.  A call is modelled statement by          *)
(* statement at the granularity of its loops: one step per sub-directory   *)
(* entry of the second pass, one step per chunk reference of the chunk     *)
(* loop, and one step for the code after the loop.                         *)
(*                                                                         *)
(* The file is an input.  With file.known = FALSE its content is left open *)
(* and every read draws the record it finds from the alphabets of the      *)
(* file's class: "any" (every kind of entry and chunk, short files) or     *)
(* "bscan" (patient, laterality and B-scan image chunks, longer files).    *)
(* The directories of a file sit at the positions 1..Len(file.prev);       *)
(* file.current is main_directory.current and file.prev[p] the prev link   *)
(* of the directory at p.  All sub-directory entries of a file are kept in *)
(* the directory at position 1; the other directories have num_entries 0.  *)
(* With file.known = TRUE the content is fixed in the initial state, so    *)
(* that several calls read the same bytes.                                 *)
(*                                                                         *)
(* Conventions:                                                            *)
(*   - Python None is the string "None"; an attribute that was never       *)
(*     assigned (self.patient_id, self.birthdate) is the string "unset".   *)
(*   - dicts are functions whose DOMAIN is the set of keys present.        *)
(*   - chunk.slice_id / 2 is a Python float; volume_dict keeps twice the   *)
(*     float (the integer slice_id), see Halves and IntOfHalves.           *)
(*   - a decoded image or contour is the positive number of the chunk      *)
(*     reference it was decoded from; the placeholder of a volume slot is  *)
(*     the integer 0, as in the code.                                      *)
(***************************************************************************)
EXTENDS Integers, Sequences, FiniteSets, TLC

\* ------------------------------------------------------------------ bounds

\* directory positions of a file whose chain is left open
MaxPos == 3
\* iterations of the walk along the prev links that are followed
MaxWalk == 4

\* sub-directory entries of a file of class "any"
MaxEntries == 2
\* sub-directory entries of a file of class "bscan"
BscanLen == 5
\* calls made on one reader when the file content is fixed
MaxCalls == 3
\* chunks of a file of fixed content
FacadeLen == 3
\* largest slice_id a sub-directory entry or chunk header carries in the model
MaxSliceId == 4

\* ------------------------------------------------- chunk types (dispatch)

TypePatient == 9
TypeLaterality == 11
TypeBscanMeta == 10004
TypeContour == 10019
TypeImage == 1073741824
\* a chunk type the dispatcher has no branch for
TypeOther == 3

LateralityR == 82
LateralityL == 76

\* ------------------------------------------------------------- alphabets

\* (patient_id, study_id, series_id) of sub-directory entries and chunk headers
PatientIds == {1}
StudyIds == {1}
SeriesIds == {1, 2}

\* slice_id is a signed 32-bit field (Int32sn).  -1 and 3 are left out: -1 gives
\* the indices and lengths of 0, and 3 those of 2.
SliceIds == {-2, 0, 1, 2} \cup (4..MaxSliceId)

ContourIds == {1}

\* "{}_{}_{}".format(patient_id, study_id, series_id)
VolumeString(c) ==
    ToString(c.patient_id) \o "_" \o ToString(c.study_id) \o "_" \o ToString(c.series_id)

\* f"contour{contour_data.id}"
ContourName(c) == "contour" \o ToString(c.id)

\* decoded PatientRecord payloads (birthdate is the raw u32, a multiple of 64 here)
PatientRecords ==
    { [first_name |-> "Ada", surname |-> "Adams", birthdate |-> 64 * 14558806,
       sex |-> "F", patient_id |-> "P1"],
      [first_name |-> "Bob", surname |-> "Brown", birthdate |-> 64 * 14558807,
       sex |-> "M", patient_id |-> "P2"] }

NoPatientData ==
    [first_name |-> "", surname |-> "", birthdate |-> 0, sex |-> "", patient_id |-> ""]

\* A chunk: the 60-byte header (hdr_ok: it could be read and parsed) and what the
\* payload behind it decodes to.  payload_ok: the fixed-size record of the type
\* (127, 104, 20, 16 or 20 bytes) parses; data_ok: the variable-length data behind
\* it (contour floats, pixels) is complete.  acq is the calendar date that
\* start_epoch + acquisitionTime * 100ns falls on, or "overflow" when the sum is
\* outside the range of datetime.
BlankChunk ==
    [hdr_ok |-> TRUE, type |-> TypeOther, ind |-> 0,
     patient_id |-> 1, study_id |-> 1, series_id |-> 1, slice_id |-> 0,
     payload_ok |-> TRUE, patient_data |-> NoPatientData, acq |-> "",
     laterality |-> 0, id |-> 0, width |-> 0, height |-> 0, data_ok |-> TRUE]

\* the value of the local `chunk` before the first chunk header of a call is parsed
NoChunk == [BlankChunk EXCEPT !.type = 0]

PatientChunks ==
    { [BlankChunk EXCEPT !.type = TypePatient, !.patient_data = p] : p \in PatientRecords }
    \cup { [BlankChunk EXCEPT !.type = TypePatient, !.payload_ok = FALSE] }

BscanMetaChunks ==
    { [BlankChunk EXCEPT !.type = TypeBscanMeta, !.acq = d] :
        d \in {"2020-01-01", "2020-01-02", "overflow"} }
    \cup { [BlankChunk EXCEPT !.type = TypeBscanMeta, !.payload_ok = FALSE] }

LateralityChunks ==
    { [BlankChunk EXCEPT !.type = TypeLaterality, !.laterality = l] :
        l \in {LateralityR, LateralityL, 0} }
    \cup { [BlankChunk EXCEPT !.type = TypeLaterality, !.payload_ok = FALSE] }

ContourChunks ==
    { [BlankChunk EXCEPT !.type = TypeContour, !.series_id = r, !.slice_id = z,
                         !.id = n, !.width = 1] :
        r \in SeriesIds, z \in SliceIds, n \in ContourIds }
    \cup { [BlankChunk EXCEPT !.type = TypeContour, !.id = 1, !.width = 1, !.slice_id = 2,
                              !.data_ok = FALSE],
           [BlankChunk EXCEPT !.type = TypeContour, !.id = 1, !.width = 0, !.slice_id = 2],
           [BlankChunk EXCEPT !.type = TypeContour, !.payload_ok = FALSE] }

\* B-scan images (ind = 1)
BscanImageChunks ==
    { [BlankChunk EXCEPT !.type = TypeImage, !.ind = 1, !.series_id = r, !.slice_id = z,
                         !.width = 1, !.height = 1] :
        r \in SeriesIds, z \in SliceIds }
    \cup { [BlankChunk EXCEPT !.type = TypeImage, !.ind = 1, !.slice_id = 2,
                              !.width = 1, !.height = 1, !.data_ok = FALSE],
           [BlankChunk EXCEPT !.type = TypeImage, !.ind = 1, !.slice_id = 2,
                              !.width = 0, !.height = 1] }

\* fundus images (ind = 0) and images with another ind
OtherImageChunks ==
    { [BlankChunk EXCEPT !.type = TypeImage, !.ind = 0, !.series_id = r,
                         !.width = 1, !.height = 1] : r \in SeriesIds }
    \cup { [BlankChunk EXCEPT !.type = TypeImage, !.ind = 0, !.width = 1, !.height = 1,
                              !.data_ok = FALSE],
           [BlankChunk EXCEPT !.type = TypeImage, !.ind = 0, !.width = 1, !.height = 0],
           [BlankChunk EXCEPT !.type = TypeImage, !.ind = 2, !.width = 1, !.height = 1],
           [BlankChunk EXCEPT !.type = TypeImage, !.ind = 2, !.width = 0, !.height = 1],
           [BlankChunk EXCEPT !.type = TypeImage, !.payload_ok = FALSE] }

Chunks ==
    PatientChunks \cup BscanMetaChunks \cup LateralityChunks \cup ContourChunks
    \cup BscanImageChunks \cup OtherImageChunks
    \cup { BlankChunk, [BlankChunk EXCEPT !.hdr_ok = FALSE] }

\* sub-directory entries; an entry with start > pos refers to an out-of-line chunk
SubDirectoryEntries ==
    [pos : {1}, start : {1, 2}, patient_id : PatientIds, study_id : StudyIds,
     series_id : SeriesIds, slice_id : SliceIds]

\* the value of `entry` before the first sub-directory entry is parsed and after
\* the second pass
NoEntry ==
    [pos |-> 0, start |-> 0, patient_id |-> 0, study_id |-> 0, series_id |-> 0,
     slice_id |-> 0]

\* The class "bscan": series 1 is declared with slice_id 2 or 4, series 2 with
\* slice_id 0 or not at all; every entry refers to a chunk.
BscanEntries ==
    { [pos |-> 1, start |-> 2, patient_id |-> 1, study_id |-> 1, series_id |-> e[1],
       slice_id |-> e[2]] : e \in {<<1, 2>>, <<1, 4>>, <<2, 0>>} }

BscanChunks ==
    { [BlankChunk EXCEPT !.type = TypePatient,
                         !.patient_data = CHOOSE p \in PatientRecords : p.patient_id = "P1"],
      [BlankChunk EXCEPT !.type = TypeLaterality, !.laterality = LateralityR],
      [BlankChunk EXCEPT !.type = TypeLaterality, !.laterality = LateralityL],
      [BlankChunk EXCEPT !.type = TypeLaterality, !.laterality = 0] }
    \cup { [BlankChunk EXCEPT !.type = TypeImage, !.ind = 1, !.series_id = e[1],
                              !.slice_id = e[2], !.width = 1, !.height = 1] :
             e \in {<<1, 2>>, <<1, 4>>, <<2, 2>>} }

\* ------------------------------------------------------------ Python data

\* An insertion-ordered dict: the sequence of its <<key, value>> pairs.
Keys(d) == { d[j][1] : j \in DOMAIN d }
Has(d, k) == k \in Keys(d)
Get(d, k) == d[CHOOSE j \in DOMAIN d : d[j][1] = k][2]
\* d[k] = v
Put(d, k, v) ==
    IF Has(d, k)
    THEN [j \in DOMAIN d |-> IF d[j][1] = k THEN <<k, v>> ELSE d[j]]
    ELSE Append(d, <<k, v>>)

\* [v] * n (empty when n <= 0)
Repeat(v, n) == [j \in 1..n |-> v]
\* list[idx] is defined for -len <= idx < len; a negative idx counts from the end
ValidIndex(list, idx) == idx \in (0 - Len(list))..(Len(list) - 1)
ListPos(list, idx) == IF idx >= 0 THEN idx + 1 ELSE Len(list) + idx + 1
\* list[idx] = v, for a valid idx
SetItem(list, idx, v) == [list EXCEPT ![ListPos(list, idx)] = v]

\* chunk.slice_id / 2 is a float; it is kept as the number of halves
Halves(slice_id) == slice_id
\* int(h) of a float kept in halves: int() truncates toward zero
IntOfHalves(h) == IF h >= 0 THEN h \div 2 ELSE 0 - ((0 - h) \div 2)

\* isinstance(x, int): a slot still holding the placeholder of [0] * n
IsPlaceholder(x) == x = 0

\* ------------------------------------------------------- the custom float

\* A string of binary digits is a sequence of 0s and 1s, first character first.

\* s[::-1]
Reverse(s) == [j \in 1..Len(s) |-> s[Len(s) + 1 - j]]
\* bin(n)[2:].zfill(width) and "{0:0<width>b}".format(n), for 0 <= n < 2^width
Bin(n, width) == [j \in 1..width |-> (n \div (2 ^ (width - j))) % 2]
\* int(s, 2)
RECURSIVE IntOfBits(_)
IntOfBits(s) ==
    IF s = <<>> THEN 0 ELSE 2 * IntOfBits(SubSeq(s, 1, Len(s) - 1)) + s[Len(s)]

\* self.power = pow(2, 10)
power == 2 ^ 10
\* range(0, pow(2, 16))
Uint16s == 0..(2 ^ 16 - 1)

\* mantissa_sum * 2^exponent_sum with mantissa_sum = 1 + mantissa / power: the
\* product is kept by the integers it is made of
DecimalValue(mantissa, exponent) ==
    [mantissa |-> IntOfBits(mantissa), power |-> power,
     exponent_sum |-> IntOfBits(exponent) - 63]

\* read_custom_float(bytes), bytes a pair of byte values
read_custom_float(bytes) ==
    LET bits == Reverse(Bin(bytes[1], 8)) \o Reverse(Bin(bytes[2], 8))
        mantissa == SubSeq(bits, 1, 10)
        exponent == SubSeq(bits, 11, 16)
    IN  DecimalValue(mantissa, Reverse(exponent))

\* mutant of Bits16: the [::-1] dropped
Bits16NotReversed(n) == Bin(n, 16)

\* bits = "{0:016b}".format(uint16)[::-1]
Bits16(n) == Reverse(Bin(n, 16))

\* uint16_to_ufloat16(uint16)
uint16_to_ufloat16(n) ==
    LET bits == Bits16(n)
        mantissa == SubSeq(bits, 1, 10)
        exponent == Reverse(SubSeq(bits, 11, 16))
    IN  DecimalValue(mantissa, exponent)

\* ------------------------------------------------------------------ state

VARIABLES
    file,                          \* the .e2e file (see the head of the module)
    pc,                            \* "idle", "subdir", "chunks", "assemble"
    op,                            \* the call in progress: "oct", "fundus", "none"
    calls,                         \* calls that may still be started on the reader
    current, directory_stack,      \* first pass: the walk along the prev links
    uint16,                        \* a 16-bit raw pixel value
    LUT,                           \* the lookup table, cut down to the entry of uint16
    decimal_value,                 \* what read_custom_float returned for the two
                                   \* bytes of uint16, in a one-element list
    history,                       \* what each finished call returned or raised
    sex, first_name, surname,      \* self.sex, self.first_name, self.surname
    patient_id, birthdate,         \* self.patient_id, self.birthdate
    acquisition_date,              \* self.acquisition_date
    volume_dict, chunk_stack, ii,  \* second pass; ii entries were read
    entry,                         \* the sub-directory entry parsed last (the local
                                   \* `chunk` of the second pass)
    volume_array_dict, volume_array_dict_additional,
    laterality_dict, laterality, contour_dict,
    image_array_dict,
    i,                             \* chunk references visited by the chunk loop
    chunk                          \* the chunk parsed last by the chunk loop

selfVars == <<sex, first_name, surname, patient_id, birthdate, acquisition_date>>
walkVars == <<current, directory_stack>>
floatVars == <<uint16, LUT, decimal_value>>
scanVars == <<volume_dict, chunk_stack, ii, entry>>
volumeVars == <<volume_array_dict, volume_array_dict_additional>>
readerVars ==
    <<file, pc, op, calls, current, directory_stack, history, sex, first_name, surname, patient_id, birthdate,
      acquisition_date, volume_dict, chunk_stack, ii, entry, volume_array_dict,
      volume_array_dict_additional, laterality_dict, laterality, contour_dict,
      image_array_dict, i, chunk>>
vars ==
    <<uint16, LUT, decimal_value,
      file, pc, op, calls, current, directory_stack, history, sex, first_name, surname, patient_id, birthdate,
      acquisition_date, volume_dict, chunk_stack, ii, entry, volume_array_dict,
      volume_array_dict_additional, laterality_dict, laterality, contour_dict,
      image_array_dict, i, chunk>>

\* files whose content is left open
AnyFile ==
    [known |-> FALSE, class |-> "any", current |-> 1, prev |-> <<0>>,
     entries |-> <<>>, chunks |-> <<>>]
BscanFile ==
    [known |-> FALSE, class |-> "bscan", current |-> 1, prev |-> <<0>>,
     entries |-> <<>>, chunks |-> <<>>]

\* E2E.__init__: patient_id and birthdate are not assigned
ReaderInit ==
    /\ sex = "None" /\ first_name = "None" /\ surname = "None"
    /\ acquisition_date = "None"
    /\ patient_id = "unset" /\ birthdate = "unset"

\* no table entry was computed
NoLut == uint16 = 0 /\ LUT = <<>> /\ decimal_value = <<>>

NoCall ==
    /\ pc = "idle" /\ op = "none" /\ history = <<>>
    /\ current = 0 /\ directory_stack = <<>>
    /\ volume_dict = <<>> /\ chunk_stack = <<>> /\ ii = 0 /\ entry = NoEntry
    /\ volume_array_dict = <<>> /\ volume_array_dict_additional = <<>>
    /\ laterality_dict = <<>> /\ laterality = "None" /\ contour_dict = <<>>
    /\ image_array_dict = <<>> /\ i = 0 /\ chunk = NoChunk

Init == file = AnyFile /\ calls = 1 /\ ReaderInit /\ NoCall /\ NoLut

\* the locals of a call do not outlive it
ClearLocals ==
    /\ current' = 0 /\ directory_stack' = <<>>
    /\ volume_dict' = <<>> /\ chunk_stack' = <<>> /\ ii' = 0 /\ entry' = NoEntry
    /\ volume_array_dict' = <<>> /\ volume_array_dict_additional' = <<>>
    /\ laterality_dict' = <<>> /\ laterality' = "None" /\ contour_dict' = <<>>
    /\ image_array_dict' = <<>> /\ i' = 0 /\ chunk' = NoChunk

\* the call ends: it returns a collection (exc = "None") or raises exc
Return(exc, oct_volumes, fundus_images) ==
    /\ pc' = "idle" /\ op' = "none"
    /\ history' = Append(history, [op |-> op, exc |-> exc, oct_volumes |-> oct_volumes,
                                   fundus_images |-> fundus_images])
    /\ ClearLocals
    /\ UNCHANGED <<floatVars, file, calls>>

\* an exception no handler of the call catches
Raise(exc) == Return(exc, <<>>, <<>>) /\ UNCHANGED selfVars

\* the chunk loop goes on to the next chunk reference, if there is one
Continue(c) ==
    /\ chunk' = c /\ i' = i + 1
    /\ pc' = IF i + 1 < Len(chunk_stack) THEN "chunks" ELSE "assemble"
    /\ UNCHANGED <<floatVars, file, op, calls, history, walkVars, scanVars>>

\* break: the chunk loop is left
Break(c) ==
    /\ chunk' = c /\ i' = i + 1
    /\ pc' = "assemble"
    /\ UNCHANGED <<floatVars, file, op, calls, history, walkVars, scanVars>>

\* ---------------------------------------------------------- the first pass

StartCall(o) ==
    /\ pc = "idle" /\ calls > 0
    /\ pc' = "walk" /\ op' = o /\ calls' = calls - 1
    /\ current' = file.current /\ directory_stack' = <<>>
    /\ UNCHANGED <<floatVars, file, history, selfVars, scanVars, volumeVars, laterality_dict,
                   laterality, contour_dict, image_array_dict, i, chunk>>

StartOct == StartCall("oct")
StartFundus == StartCall("fundus")

\* one iteration of `while current != 0`: the position is pushed and the directory
\* at that position is parsed; a position behind the end of the file gives a short
\* read, which the parse does not accept
WalkDirectory ==
    /\ pc = "walk" /\ current # 0
    /\ Len(directory_stack) < MaxWalk
    /\ IF current \in DOMAIN file.prev
       THEN /\ directory_stack' = Append(directory_stack, current)
            /\ current' = file.prev[current]
            /\ UNCHANGED <<floatVars, file, pc, op, calls, history, selfVars, scanVars, volumeVars,
                           laterality_dict, laterality, contour_dict, image_array_dict,
                           i, chunk>>
       ELSE Raise("StreamError")

\* current == 0: the while loop is left
WalkDone ==
    /\ pc = "walk" /\ current = 0
    /\ pc' = "subdir"
    /\ UNCHANGED <<floatVars, file, op, calls, history, walkVars, selfVars, scanVars, volumeVars,
                   laterality_dict, laterality, contour_dict, image_array_dict, i, chunk>>

\* --------------------------------------------------------- the second pass

\* `for position in directory_stack`: the entries are read when the walk reached
\* the directory that holds them
EntriesReached == \E j \in DOMAIN directory_stack : directory_stack[j] = 1

\* the sub-directory entry behind the ii entries read so far
NextEntries ==
    IF ~EntriesReached THEN {}
    ELSE IF file.known
    THEN IF ii < Len(file.entries) THEN {file.entries[ii + 1]} ELSE {}
    ELSE IF file.class = "bscan"
    THEN IF ii < BscanLen THEN BscanEntries ELSE {}
    ELSE IF ii < MaxEntries THEN SubDirectoryEntries ELSE {}

\* volume_dict after one sub-directory entry: the running maximum of slice_id / 2
VolumeDictAfter(d, e) ==
    LET volume_string == VolumeString(e) IN
    IF ~Has(d, volume_string) THEN Put(d, volume_string, Halves(e.slice_id))
    ELSE IF Halves(e.slice_id) > Get(d, volume_string)
         THEN Put(d, volume_string, Halves(e.slice_id))
         ELSE d

\* one iteration of `for ii in range(directory_chunk.num_entries)`
ReadSubDirectory ==
    /\ pc = "subdir"
    /\ \E e \in NextEntries :
        /\ volume_dict' = IF op = "oct" THEN VolumeDictAfter(volume_dict, e) ELSE volume_dict
        /\ chunk_stack' = IF e.start > e.pos THEN Append(chunk_stack, e.start)
                          ELSE chunk_stack
        /\ entry' = e
    /\ ii' = ii + 1
    /\ UNCHANGED <<floatVars, file, pc, op, calls, history, walkVars, selfVars, volumeVars,
                   laterality_dict, laterality, contour_dict, image_array_dict, i, chunk>>

\* mutant of InitialVolumes: the + 1 of int(num_slices + 1) dropped
InitialVolumesShort(d) ==
    LET kept == SelectSeq(d, LAMBDA kv : kv[2] > 0) IN
    [j \in DOMAIN kept |-> <<kept[j][1], Repeat(0, IntOfHalves(kept[j][2]))>>]

\* volume_array_dict as initialised from volume_dict
InitialVolumes(d) ==
    LET kept == SelectSeq(d, LAMBDA kv : kv[2] > 0) IN
    [j \in DOMAIN kept |-> <<kept[j][1], Repeat(0, IntOfHalves(kept[j][2] + 2))>>]

\* the directories are exhausted: the dicts of the call are initialised
ScanDone ==
    /\ pc = "subdir"
    /\ file.known => NextEntries = {}
    /\ volume_array_dict' = IF op = "oct" THEN InitialVolumes(volume_dict) ELSE <<>>
    /\ pc' = IF chunk_stack = <<>> THEN "assemble" ELSE "chunks"
    /\ entry' = NoEntry
    /\ UNCHANGED <<floatVars, file, op, calls, history, walkVars, selfVars, volume_dict, chunk_stack, ii,
                   volume_array_dict_additional, laterality_dict, laterality,
                   contour_dict, image_array_dict, i, chunk>>

\* ---------------------------------------------------- the chunk dispatcher

\* the chunk behind chunk reference k
ChunkAt(k) ==
    IF file.known THEN {file.chunks[k]}
    ELSE IF file.class = "bscan" THEN BscanChunks
    ELSE Chunks

\* patient data: a decode failure is passed over
PatientChunk(c) ==
    /\ IF c.payload_ok
       THEN /\ sex' = c.patient_data.sex
            /\ first_name' = c.patient_data.first_name
            /\ surname' = c.patient_data.surname
            /\ birthdate' = ToString((c.patient_data.birthdate \div 64) - 14558805)
            /\ patient_id' = c.patient_data.patient_id
       ELSE UNCHANGED <<sex, first_name, surname, birthdate, patient_id>>
    /\ UNCHANGED acquisition_date

\* the current laterality after a laterality chunk
LateralityAfter(c, lat) ==
    IF c.payload_ok
    THEN IF c.laterality = LateralityR THEN "R"
         ELSE IF c.laterality = LateralityL THEN "L"
         ELSE lat
    ELSE "None"

OctPatient(c) ==
    /\ PatientChunk(c)
    /\ Continue(c)
    /\ UNCHANGED <<volumeVars, laterality_dict, laterality, contour_dict, image_array_dict>>

OctBscanMeta(c) ==
    IF ~c.payload_ok THEN Raise("StreamError")
    ELSE IF c.acq = "overflow" THEN Raise("OverflowError")
    ELSE /\ acquisition_date' = IF acquisition_date = "None" THEN c.acq
                                ELSE acquisition_date
         /\ Continue(c)
         /\ UNCHANGED <<sex, first_name, surname, patient_id, birthdate, volumeVars,
                        laterality_dict, laterality, contour_dict, image_array_dict>>

OctLaterality(c) ==
    /\ laterality' = LateralityAfter(c, laterality)
    /\ Continue(c)
    /\ UNCHANGED <<selfVars, volumeVars, laterality_dict, contour_dict, image_array_dict>>

\* contour_dict[volume_string][contour_name][slice_id] = contour
ContourDictAfter(d, c, contour) ==
    LET volume_string == VolumeString(c)
        slice_id == IntOfHalves(Halves(c.slice_id)) - 1
        contours == IF Has(d, volume_string) THEN Get(d, volume_string) ELSE <<>>
        values == IF Has(contours, ContourName(c)) THEN Get(contours, ContourName(c))
                  ELSE <<>>
    IN  Put(d, volume_string, Put(contours, ContourName(c), Put(values, slice_id, contour)))

OctContour(c) ==
    IF ~c.payload_ok THEN Raise("StreamError")
    ELSE /\ contour_dict' = IF c.width > 0 /\ c.data_ok
                            THEN ContourDictAfter(contour_dict, c, i + 1)
                            ELSE contour_dict
         /\ Continue(c)
         /\ UNCHANGED <<selfVars, volumeVars, laterality_dict, laterality, image_array_dict>>

\* mutant of Count: the sum instead of the product
CountSum(c) == c.height + c.width

\* count = image_data.height * image_data.width
Count(c) == c.height * c.width

\* mutant of AdditionalAfter: the bucket is replaced instead of extended
AdditionalAfterReplace(d, volume_string, image) == Put(d, volume_string, <<image>>)

\* volume_array_dict_additional after an image that has no initialised volume
AdditionalAfter(d, volume_string, image) ==
    Put(d, volume_string,
        IF Has(d, volume_string) THEN Append(Get(d, volume_string), image)
        ELSE <<image>>)

\* mutant of BindLaterality: the test `volume_string not in laterality_dict` dropped
BindLateralityAlways(d, volume_string, lat) ==
    IF lat # "None" THEN Put(d, volume_string, lat) ELSE d

\* laterality_dict after a B-scan image was stored
BindLaterality(d, volume_string, lat) ==
    IF lat # "None" /\ ~Has(d, volume_string) THEN Put(d, volume_string, lat) ELSE d

\* mutant of StoredInVolume: the membership test never succeeds
StoredInVolumeNever(volume_string) == Has(volume_array_dict, volume_string \o "_")

\* the B-scan image goes to the initialised volume, if there is one
StoredInVolume(volume_string) == Has(volume_array_dict, volume_string)

OctImage(c) ==
    LET volume_string == VolumeString(c)
        slice == IntOfHalves(Halves(c.slice_id)) - 1
        image == i + 1
    IN
    IF ~c.payload_ok THEN Raise("StreamError")
    ELSE IF c.ind # 1
    THEN Continue(c)
         /\ UNCHANGED <<selfVars, volumeVars, laterality_dict, laterality, contour_dict,
                        image_array_dict>>
    ELSE IF Count(c) = 0
    THEN Break(c)
         /\ UNCHANGED <<selfVars, volumeVars, laterality_dict, laterality, contour_dict,
                        image_array_dict>>
    ELSE IF ~c.data_ok
    THEN \* the reshape fails: a warning, the image is skipped
         Continue(c)
         /\ UNCHANGED <<selfVars, volumeVars, laterality_dict, laterality, contour_dict,
                        image_array_dict>>
    ELSE IF StoredInVolume(volume_string)
            /\ ~ValidIndex(Get(volume_array_dict, volume_string), slice)
    THEN Raise("IndexError")
    ELSE /\ IF StoredInVolume(volume_string)
            THEN /\ volume_array_dict' =
                        Put(volume_array_dict, volume_string,
                            SetItem(Get(volume_array_dict, volume_string), slice, image))
                 /\ UNCHANGED volume_array_dict_additional
            ELSE /\ volume_array_dict_additional' =
                        AdditionalAfter(volume_array_dict_additional, volume_string, image)
                 /\ UNCHANGED volume_array_dict
         /\ laterality_dict' = BindLaterality(laterality_dict, volume_string, laterality)
         /\ Continue(c)
         /\ UNCHANGED <<selfVars, laterality, contour_dict, image_array_dict>>

OctOther(c) ==
    /\ Continue(c)
    /\ UNCHANGED <<selfVars, volumeVars, laterality_dict, laterality, contour_dict,
                   image_array_dict>>

\* one iteration of the chunk loop of read_oct_volume
OctChunk ==
    /\ pc = "chunks" /\ op = "oct"
    /\ \E c \in ChunkAt(i + 1) :
        IF ~c.hdr_ok THEN Raise("StreamError")
        ELSE CASE c.type = TypePatient -> OctPatient(c)
               [] c.type = TypeBscanMeta -> OctBscanMeta(c)
               [] c.type = TypeLaterality -> OctLaterality(c)
               [] c.type = TypeContour -> OctContour(c)
               [] c.type = TypeImage -> OctImage(c)
               [] OTHER -> OctOther(c)

\* ------------------------------------------------- after the chunk loop

\* num_slices or len(v): None and 0 are both falsy; None is 0 here
ContourLength(volume_id, v) ==
    LET num_slices == IF Has(volume_dict, volume_id)
                      THEN IntOfHalves(Get(volume_dict, volume_id)) + 1
                      ELSE 0
    IN  IF num_slices = 0 THEN Len(v) ELSE num_slices

\* the assignments list[slice_id] = contour in the order of the dict v; ok is FALSE
\* when one of them raises IndexError.  An absent slot (None) of the list is 0.
RECURSIVE FillContour(_, _)
FillContour(list, v) ==
    IF v = <<>> THEN [ok |-> TRUE, list |-> list]
    ELSE IF ~ValidIndex(list, v[1][1]) THEN [ok |-> FALSE, list |-> list]
    ELSE FillContour(SetItem(list, v[1][1], v[1][2]), Tail(v))

ContourList(volume_id, v) == FillContour(Repeat(0, ContourLength(volume_id, v)), v)

\* every assignment of the contour assembly succeeds
ContourDataOk ==
    \A j \in DOMAIN contour_dict : \A m \in DOMAIN contour_dict[j][2] :
        ContourList(contour_dict[j][1], contour_dict[j][2][m][2]).ok

\* contour_data: volume_id -> contour_name -> list
ContourData ==
    [j \in DOMAIN contour_dict |->
        <<contour_dict[j][1],
          [m \in DOMAIN contour_dict[j][2] |->
              <<contour_dict[j][2][m][1],
                ContourList(contour_dict[j][1], contour_dict[j][2][m][2]).list>>]>>]

\* OCTVolumeWithMetaData.__init__ : num_slices = len(self.volume)
NumSlices(volume) == Len(volume)

\* the volumes that are not skipped as never filled
KeptVolumes(all) == SelectSeq(all, LAMBDA kv : ~IsPlaceholder(kv[2][1]))

\* oct_volumes; a dict that is None (contours) is the empty dict
OctVolumes ==
    LET kept == KeptVolumes(volume_array_dict \o volume_array_dict_additional)
        contour_data == ContourData
    IN  [j \in DOMAIN kept |->
            [volume |-> kept[j][2],
             num_slices |-> NumSlices(kept[j][2]),
             patient_id |-> patient_id,
             first_name |-> first_name,
             surname |-> surname,
             sex |-> sex,
             acquisition_date |-> acquisition_date,
             volume_id |-> kept[j][1],
             laterality |-> IF Has(laterality_dict, kept[j][1])
                            THEN Get(laterality_dict, kept[j][1]) ELSE "None",
             contours |-> IF Has(contour_data, kept[j][1])
                          THEN Get(contour_data, kept[j][1]) ELSE <<>>]]

\* the code of read_oct_volume behind the chunk loop
OctFinish ==
    /\ pc = "assemble" /\ op = "oct"
    /\ IF ~ContourDataOk THEN Raise("IndexError")
       ELSE IF KeptVolumes(volume_array_dict \o volume_array_dict_additional) # <<>>
               /\ patient_id = "unset"
       THEN Raise("AttributeError")
       ELSE Return("None", OctVolumes, <<>>) /\ UNCHANGED selfVars

\* ------------------------------------------------------ read_fundus_image

FundusPatient(c) ==
    /\ PatientChunk(c)
    /\ Continue(c)
    /\ UNCHANGED <<volumeVars, laterality_dict, laterality, contour_dict, image_array_dict>>

FundusLaterality(c) ==
    /\ laterality' = LateralityAfter(c, laterality)
    /\ Continue(c)
    /\ UNCHANGED <<selfVars, volumeVars, laterality_dict, contour_dict, image_array_dict>>

FundusImage(c) ==
    LET image_string == VolumeString(c)
        image == i + 1
    IN
    IF ~c.payload_ok THEN Raise("StreamError")
    ELSE IF Count(c) = 0
    THEN Break(c)
         /\ UNCHANGED <<selfVars, volumeVars, laterality_dict, laterality, contour_dict,
                        image_array_dict>>
    ELSE IF c.ind # 0
    THEN Continue(c)
         /\ UNCHANGED <<selfVars, volumeVars, laterality_dict, laterality, contour_dict,
                        image_array_dict>>
    ELSE IF ~c.data_ok
    THEN \* the reshape of a short pixel buffer is not guarded
         Raise("ValueError")
    ELSE /\ image_array_dict' = Put(image_array_dict, image_string, image)
         /\ laterality_dict' = Put(laterality_dict, image_string, laterality)
         /\ Continue(c)
         /\ UNCHANGED <<selfVars, volumeVars, laterality, contour_dict>>

FundusOther(c) ==
    /\ Continue(c)
    /\ UNCHANGED <<selfVars, volumeVars, laterality_dict, laterality, contour_dict,
                   image_array_dict>>

\* one iteration of the chunk loop of read_fundus_image
FundusChunk ==
    /\ pc = "chunks" /\ op = "fundus"
    /\ \E c \in ChunkAt(i + 1) :
        IF ~c.hdr_ok THEN Raise("StreamError")
        ELSE CASE c.type = TypePatient -> FundusPatient(c)
               [] c.type = TypeLaterality -> FundusLaterality(c)
               [] c.type = TypeImage -> FundusImage(c)
               [] OTHER -> FundusOther(c)

FundusImages ==
    [j \in DOMAIN image_array_dict |->
        [image |-> image_array_dict[j][2],
         patient_id |-> patient_id,
         image_id |-> image_array_dict[j][1],
         laterality |-> IF Has(laterality_dict, image_array_dict[j][1])
                        THEN Get(laterality_dict, image_array_dict[j][1]) ELSE "None"]]

\* the code of read_fundus_image behind the chunk loop
FundusFinish ==
    /\ pc = "assemble" /\ op = "fundus"
    /\ IF image_array_dict # <<>> /\ patient_id = "unset"
       THEN Raise("AttributeError")
       ELSE Return("None", <<>>, FundusImages) /\ UNCHANGED selfVars

\* ------------------------------------------------------- specifications

Next ==
    \/ StartOct
    \/ StartFundus
    \/ WalkDirectory
    \/ WalkDone
    \/ ReadSubDirectory
    \/ ScanDone
    \/ OctChunk
    \/ OctFinish
    \/ FundusChunk
    \/ FundusFinish

\* one call on a fresh reader, the content of the file left open
Spec == Init /\ [][Next]_vars

\* one call on a fresh reader, the file of class "bscan"
InitBscan == file = BscanFile /\ calls = 1 /\ ReaderInit /\ NoCall /\ NoLut
SpecBscan == InitBscan /\ [][Next]_vars

\* Files of fixed content: FacadeLen sub-directory entries, each referring to a
\* chunk, and the chunks behind them.
FacadeEntry ==
    [pos |-> 1, start |-> 2, patient_id |-> 1, study_id |-> 1, series_id |-> 1,
     slice_id |-> 2]

FacadeChunks ==
    { [BlankChunk EXCEPT !.type = TypePatient,
                         !.patient_data = CHOOSE p \in PatientRecords : p.patient_id = "P1"],
      [BlankChunk EXCEPT !.type = TypeBscanMeta, !.acq = "2020-01-01"],
      [BlankChunk EXCEPT !.type = TypeLaterality, !.laterality = LateralityR],
      [BlankChunk EXCEPT !.type = TypeImage, !.ind = 1, !.slice_id = 2,
                         !.width = 1, !.height = 1],
      [BlankChunk EXCEPT !.type = TypeImage, !.ind = 1, !.slice_id = 2,
                         !.width = 0, !.height = 1],
      [BlankChunk EXCEPT !.type = TypeImage, !.ind = 0, !.width = 1, !.height = 1],
      [BlankChunk EXCEPT !.type = TypeImage, !.ind = 0, !.width = 1, !.height = 0] }

FacadeFiles ==
    { [known |-> TRUE, class |-> "fixed", current |-> 1, prev |-> <<0>>,
       entries |-> [j \in 1..FacadeLen |-> FacadeEntry], chunks |-> cs] :
        cs \in [1..FacadeLen -> FacadeChunks] }

InitFacade == file \in FacadeFiles /\ calls = MaxCalls /\ ReaderInit /\ NoCall /\ NoLut

\* up to MaxCalls calls on one reader, all reading the same file
SpecFacade == InitFacade /\ [][Next]_vars

\* Files whose directory chain is left open: MaxPos directories, every prev link
\* and main_directory.current one of 0, a directory position, or a position
\* behind the end of the file (MaxPos + 1); one sub-directory entry and one chunk.
WalkFiles ==
    { [known |-> TRUE, class |-> "fixed", current |-> c, prev |-> p,
       entries |-> <<FacadeEntry>>, chunks |-> <<k>>] :
        c \in 0..(MaxPos + 1), p \in [1..MaxPos -> 0..(MaxPos + 1)], k \in FacadeChunks }

InitWalk == file \in WalkFiles /\ calls = 1 /\ ReaderInit /\ NoCall /\ NoLut

\* one call on a fresh reader, the directory chain of the file left open
SpecWalk == InitWalk /\ [][Next]_vars

\* The two decoders of the custom float, applied to one 16-bit value.

\* LUT.append(self.uint16_to_ufloat16(i)), for i = uint16
MakeLut ==
    /\ LUT = <<>>
    /\ LUT' = <<uint16_to_ufloat16(uint16)>>
    /\ UNCHANGED <<uint16, decimal_value, readerVars>>

\* read_custom_float on the two little-endian bytes of uint16
ReadCustomFloat ==
    /\ decimal_value = <<>>
    /\ decimal_value' = <<read_custom_float(<<uint16 % 256, uint16 \div 256>>)>>
    /\ UNCHANGED <<uint16, LUT, readerVars>>

NextFloat == MakeLut \/ ReadCustomFloat

InitFloat ==
    /\ uint16 \in Uint16s /\ LUT = <<>> /\ decimal_value = <<>>
    /\ file = AnyFile /\ calls = 0 /\ ReaderInit /\ NoCall

\* every 16-bit value, decoded by both decoders
SpecFloat == InitFloat /\ [][NextFloat]_vars

\* ------------------------------------------------------------------ claims

VolumeIds ==
    { VolumeString([patient_id |-> p, study_id |-> t, series_id |-> r]) :
        p \in PatientIds, t \in StudyIds, r \in SeriesIds }

\* the OCT volumes returned by the calls made so far
ReturnedVolumes ==
    UNION { { history[a].oct_volumes[j] : j \in DOMAIN history[a].oct_volumes } :
            a \in DOMAIN history }

\* the chunk is a B-scan image chunk whose pixels decode
DecodedBscan(c) ==
    /\ c.hdr_ok /\ c.type = TypeImage /\ c.payload_ok /\ c.ind = 1
    /\ c.width * c.height # 0 /\ c.data_ok

\* the chunk is an image chunk whose width x height is 0
ZeroSizedImage(c) ==
    c.hdr_ok /\ c.type = TypeImage /\ c.payload_ok /\ c.width * c.height = 0

\* C1 (as claimed): every returned OCT volume has num_slices equal to the length of
\* its slice sequence, the length is positive, and no slot at any index still holds
\* the integer placeholder.
C1_NoPlaceholderReturned ==
    \A v \in ReturnedVolumes :
        /\ v.num_slices = Len(v.volume)
        /\ Len(v.volume) > 0
        /\ \A j \in DOMAIN v.volume : ~IsPlaceholder(v.volume[j])

\* C2 (as claimed): once the header and the directories decode, a call returns a
\* collection and never raises, whatever the chunk stream contains.
C2_CallsNeverRaise == \A a \in DOMAIN history : history[a].exc = "None"

\* C3 (as claimed): in both calls and for every ind, a chunk processed behind a
\* zero-sized image chunk changes no parse state.
C3_AsClaimed ==
    [][(pc = "chunks" /\ ZeroSizedImage(chunk) /\ pc' # "idle")
       => UNCHANGED <<sex, first_name, surname, patient_id, birthdate,
                      acquisition_date, laterality, laterality_dict, volume_array_dict,
                      volume_array_dict_additional, contour_dict, image_array_dict>>]_vars

\* C3 (amended): a zero-sized image chunk ends the chunk loop of read_fundus_image
\* for every ind, and the chunk loop of read_oct_volume when ind is 1, so that no
\* later chunk reference is processed; in read_oct_volume a zero-sized image chunk
\* with another ind is passed over and the loop goes on while references remain.
C3_ZeroImageEndsLoop ==
    ZeroSizedImage(chunk) =>
        IF op = "fundus" \/ chunk.ind = 1
        THEN pc = "assemble"
        ELSE pc = IF i < Len(chunk_stack) THEN "chunks" ELSE "assemble"

\* a zero-sized B-scan image was processed and chunk references are left unvisited
C3_Witness ==
    /\ op = "oct" /\ ZeroSizedImage(chunk) /\ chunk.ind = 1
    /\ pc = "assemble" /\ i < Len(chunk_stack)

\* C4 (as claimed): behind a laterality chunk the current laterality is "R" for code
\* 82, "L" for code 76 and absent for every other code or a decode failure.
C4_LateralityFollowsChunk ==
    (chunk.hdr_ok /\ chunk.type = TypeLaterality) =>
        laterality = IF chunk.payload_ok /\ chunk.laterality = LateralityR THEN "R"
                     ELSE IF chunk.payload_ok /\ chunk.laterality = LateralityL THEN "L"
                     ELSE "None"

\* C5: in read_oct_volume a volume_id is bound to the laterality that is current when
\* the first B-scan image of that id is stored while a laterality is current; a bound
\* volume_id keeps its laterality through every later chunk; the returned volume
\* carries the bound value.
C5_LateralityBoundOnce ==
    [][/\ (op = "oct" /\ pc = "chunks" /\ pc' # "idle") =>
            \A k \in VolumeIds :
                /\ Has(laterality_dict, k) =>
                      /\ Has(laterality_dict', k)
                      /\ Get(laterality_dict', k) = Get(laterality_dict, k)
                /\ (~Has(laterality_dict, k) /\ Has(laterality_dict', k)) =>
                      /\ DecodedBscan(chunk') /\ VolumeString(chunk') = k
                      /\ laterality # "None"
                      /\ Get(laterality_dict', k) = laterality
                /\ (/\ ~Has(laterality_dict, k) /\ laterality # "None"
                    /\ DecodedBscan(chunk') /\ VolumeString(chunk') = k) =>
                      Has(laterality_dict', k)
       /\ (op = "oct" /\ pc = "assemble" /\ pc' = "idle") =>
            \A j \in DOMAIN history'[Len(history')].oct_volumes :
                LET v == history'[Len(history')].oct_volumes[j] IN
                v.laterality = IF Has(laterality_dict, v.volume_id)
                               THEN Get(laterality_dict, v.volume_id) ELSE "None"
      ]_vars

\* a B-scan image of a bound volume_id was stored while another laterality is current
C5_Witness ==
    /\ op = "oct" /\ DecodedBscan(chunk)
    /\ Has(laterality_dict, VolumeString(chunk))
    /\ laterality # "None"
    /\ Get(laterality_dict, VolumeString(chunk)) # laterality

\* no key occurs twice in the dict
UniqueKeys(d) == \A a, b \in DOMAIN d : d[a][1] = d[b][1] => a = b

\* C6: the initialised-volume map and the orphan map have disjoint keys after any
\* sequence of chunks, no key occurs twice in either, and no two volumes returned by
\* one call have the same volume_id.
C6_VolumeIdsUnique ==
    /\ Keys(volume_array_dict) \cap Keys(volume_array_dict_additional) = {}
    /\ UniqueKeys(volume_array_dict) /\ UniqueKeys(volume_array_dict_additional)
    /\ \A a \in DOMAIN history : \A j1, j2 \in DOMAIN history[a].oct_volumes :
          history[a].oct_volumes[j1].volume_id = history[a].oct_volumes[j2].volume_id
              => j1 = j2

\* a call returned a volume of an initialised id and an orphan volume
C6_Witness ==
    \E a \in DOMAIN history :
        /\ Len(history[a].oct_volumes) = 2
        /\ history[a].oct_volumes[1].volume_id # history[a].oct_volumes[2].volume_id

\* C7 (as claimed): every volume key that has a sub-directory record has a slice
\* sequence of length max(slice_id / 2) + 1.
C7_AsClaimed ==
    (op = "oct" /\ pc \in {"chunks", "assemble"}) =>
        \A k \in Keys(volume_dict) :
            /\ Has(volume_array_dict, k)
            /\ Len(Get(volume_array_dict, k)) = IntOfHalves(Get(volume_dict, k)) + 1

\* the slice sequences against volume_dict, which holds the slice_id (the halves)
VolumeLengths ==
    (op = "oct" /\ pc \in {"chunks", "assemble"}) =>
        \A k \in VolumeIds :
            IF Has(volume_dict, k) /\ Get(volume_dict, k) > 0
            THEN /\ Has(volume_array_dict, k)
                 /\ Len(Get(volume_array_dict, k)) = (Get(volume_dict, k) \div 2) + 1
            ELSE ~Has(volume_array_dict, k)

\* C7 (amended): volume_dict holds for each key the maximum slice_id of the
\* sub-directory entries read for it; a key whose maximum is greater than 0 has a
\* slice sequence of length floor(maximum / 2) + 1 from the end of the second pass
\* on, through every chunk; a key whose maximum is 0 or less has no slice sequence.
C7_VolumeLength ==
    [][/\ (op = "oct" /\ pc = "subdir" /\ ii' = ii + 1) =>
            \A k \in VolumeIds :
                IF k = VolumeString(entry')
                THEN /\ Has(volume_dict', k)
                     /\ Get(volume_dict', k) =
                           IF Has(volume_dict, k) /\ Get(volume_dict, k) >= entry'.slice_id
                           THEN Get(volume_dict, k) ELSE entry'.slice_id
                ELSE /\ Has(volume_dict', k) <=> Has(volume_dict, k)
                     /\ Has(volume_dict, k) => Get(volume_dict', k) = Get(volume_dict, k)
       /\ VolumeLengths'
      ]_vars

\* a key whose maximum slice_id is 4 has three slots, one of them filled by a chunk
C7_Witness ==
    /\ op = "oct" /\ pc = "assemble"
    /\ \E k \in Keys(volume_array_dict) :
        /\ Get(volume_dict, k) = 4
        /\ Len(Get(volume_array_dict, k)) = 3
        /\ \E j \in 1..3 : ~IsPlaceholder(Get(volume_array_dict, k)[j])

C9_SameOutcome ==
    \A a, b \in DOMAIN history :
        history[a].op = history[b].op => history[a] = history[b]

\* C10 (as claimed): the contour assembly never fails; a contour list of an id with
\* a sub-directory record has length int(max(slice_id / 2)) + 1; every decoded
\* contour is in its list at index slice_id / 2 - 1.
C10_ContoursAssembled ==
    (op = "oct" /\ pc = "assemble") =>
        \A j \in DOMAIN contour_dict : \A m \in DOMAIN contour_dict[j][2] :
            LET k == contour_dict[j][1]
                v == contour_dict[j][2][m][2]
                r == ContourList(k, v)
            IN  /\ r.ok
                /\ Has(volume_dict, k) =>
                      Len(r.list) = IntOfHalves(Get(volume_dict, k)) + 1
                /\ \A a \in DOMAIN v :
                      /\ v[a][1] \in 0..(Len(r.list) - 1)
                      /\ r.list[v[a][1] + 1] = v[a][2]

\* C12 (as claimed): a B-scan image that goes to an initialised volume is written
\* at index int(slice_id / 2) - 1 with 0 <= index < length of the volume's
\* sequence: never at a negative index, which counts from the end of the list.
C12_StoredWithinRange ==
    [][(pc = "chunks" /\ op = "oct" /\ pc' # "idle"
        /\ volume_array_dict' # volume_array_dict)
       => LET index == IntOfHalves(Halves(chunk'.slice_id)) - 1
              volume == Get(volume_array_dict, VolumeString(chunk'))
          IN  /\ DecodedBscan(chunk')
              /\ index \in 0..(Len(volume) - 1)
              /\ volume_array_dict' =
                    Put(volume_array_dict, VolumeString(chunk'),
                        [volume EXCEPT ![index + 1] = i + 1])]_vars

\* C13 (as claimed): the walk along the prev links ends and collects no position
\* twice, also when a prev link points back to a position already visited.  The
\* walk is in the same place with the same file behind it once a position is
\* pushed a second time, so a repeated position is a walk that never reaches 0.
C13_WalkTerminates ==
    \A a, b \in DOMAIN directory_stack :
        a # b => directory_stack[a] # directory_stack[b]

\* C11: for every 16-bit value v the table entry uint16_to_ufloat16(v) and
\* read_custom_float on the bytes (v mod 256, v div 256) have the same mantissa
\* integer M in 0..1023 and the same exponent E - 63 in -63..0; M is the first ten
\* bits of the stream of the two bytes, each bit-reversed (bit j of v is bit 9 - j
\* of M), E the last six bits reversed again (v div 1024); 1 + M / 2^10 is at least 1, so the value
\* (1 + M / 2^10) * 2^(E - 63) is strictly positive.
C11_TableMatchesBytewise ==
    (LUT # <<>> /\ decimal_value # <<>>) =>
        /\ LUT[1] = decimal_value[1]
        /\ LUT[1].mantissa \in 0..1023
        /\ LUT[1].power = 1024
        /\ LUT[1].exponent_sum \in (0 - 63)..0
        /\ LUT[1].exponent_sum + 63 = uint16 \div 1024
        /\ \A j \in 0..9 :
              (LUT[1].mantissa \div (2 ^ (9 - j))) % 2 = (uint16 \div (2 ^ j)) % 2

\* C11 witness: 0x0501 was decoded by both; bit 0 and bit 8 are the first and the
\* ninth bit of the mantissa (512 + 2), bit 10 is the lowest bit of the exponent
C11_Witness ==
    /\ uint16 = 1281
    /\ LUT = <<[mantissa |-> 514, power |-> 1024, exponent_sum |-> 0 - 62]>>
    /\ decimal_value = LUT

====
